---- MODULE Spec2Model ----
(***************************************************************************)
(* Model of the trade producer service:                                    *)
(*   services/trade_producer/src/kraken_websocket_api.py  (the feed client)*)
(*   services/trade_producer/src/main.py                  (the ingestion   *)
(*                                                          loop)          *)
(*                                                                         *)
(* Python integers are unbounded and the epoch-millisecond values exceed   *)
(* the range of TLC's integers, so every quantity that may exceed 2^31 is  *)
(* held either as a sequence of bits (most significant first) or as a      *)
(* PyInt record  [neg, hi, lo]  standing for  (+/-) (hi * 10^6 + lo).      *)
(***************************************************************************)
EXTENDS Integers, Sequences, FiniteSets, TLC

(***************************************************************************)
(* Evaluation.  TLC evaluates an operator's argument and a LET definition  *)
(* again at every use when it decides ENABLED, and a bound variable once;  *)
(* At(F, x) is F(x) with x evaluated once.                                 *)
(***************************************************************************)
At(F(_), x) == CHOOSE r \in { F(v) : v \in {x} } : TRUE

(***************************************************************************)
(* Arithmetic on naturals held as bit sequences (most significant first).  *)
(***************************************************************************)
RECURSIVE NatToBits(_)
NatToBits(n) ==
    IF n = 0 THEN <<>> ELSE Append(NatToBits(n \div 2), n % 2)

Zeros(k) == [n \in 1..k |-> 0]

AnyOne(bits) == \E n \in 1..Len(bits) : bits[n] = 1

\* bits without its leading zeros
Trim(bits) ==
    At(LAMBDA b :
         IF ~AnyOne(b) THEN <<>>
         ELSE SubSeq(b, CHOOSE n \in 1..Len(b) :
                            b[n] = 1 /\ \A j \in 1..(n - 1) : b[j] = 0,
                     Len(b)),
       bits)

\* The carry- and remainder-propagating operations work on limbs of ten
\* bits, most significant first.
PadTo10(bits) ==
    At(LAMBDA b : Zeros((10 - (Len(b) % 10)) % 10) \o b, bits)

ToLimbs(bits) ==
    At(LAMBDA p :
         [k \in 1..(Len(p) \div 10) |->
             p[10*k - 9] * 512 + p[10*k - 8] * 256 + p[10*k - 7] * 128
           + p[10*k - 6] * 64 + p[10*k - 5] * 32 + p[10*k - 4] * 16
           + p[10*k - 3] * 8 + p[10*k - 2] * 4 + p[10*k - 1] * 2 + p[10*k]],
       PadTo10(bits))

FromLimbs(limbs) ==
    At(LAMBDA l :
         [n \in 1..(10 * Len(l)) |->
             (l[(n - 1) \div 10 + 1] \div 2^(9 - ((n - 1) % 10))) % 2],
       limbs)

\* (the first n limbs) * c + carry, for 0 <= carry <= c <= 10^6
RECURSIVE LimbMulAdd(_, _, _, _)
LimbMulAdd(limbs, n, c, carry) ==
    IF n = 0 /\ carry = 0 THEN <<>>
    ELSE At(LAMBDA t : Append(LimbMulAdd(limbs, IF n = 0 THEN 0 ELSE n - 1,
                                         c, t \div 1024),
                              t % 1024),
            IF n = 0 THEN carry ELSE limbs[n] * c + carry)

\* bits * c + carry
MulAdd(bits, c, carry) ==
    At(LAMBDA l : Trim(FromLimbs(LimbMulAdd(l, Len(l), c, carry))),
       ToLimbs(bits))

\* quotient [q] (n limbs) and remainder [r] of (the first n limbs) / d, for
\* d <= 10^6
RECURSIVE LimbDivMod(_, _, _)
LimbDivMod(limbs, n, d) ==
    IF n = 0 THEN [q |-> <<>>, r |-> 0]
    ELSE At(LAMBDA p : [q |-> Append(p.q, (p.r * 1024 + limbs[n]) \div d),
                        r |-> (p.r * 1024 + limbs[n]) % d],
            LimbDivMod(limbs, n - 1, d))

\* quotient [q] (without leading zeros) and remainder [r] of bits / d
DivMod(bits, d) ==
    At(LAMBDA dm : [q |-> Trim(FromLimbs(dm.q)), r |-> dm.r],
       At(LAMBDA l : LimbDivMod(l, Len(l), d), ToLimbs(bits)))

(***************************************************************************)
(* IEEE-754 binary64 values, as Python's float: [m, e] stands for m * 2^e  *)
(* with m a bit sequence of at most 53 significant bits (54 only when a    *)
(* rounding carried out of the top bit, which denotes the same value).     *)
(***************************************************************************)
\* round-half-to-even of the natural `bits` (no leading zero) to 53
\* significant bits; `sticky` says a non-zero part below `bits` was cut off
RoundBits(bits, sticky) ==
    At(LAMBDA b :
         IF Len(b) <= 53 THEN [m |-> b, e |-> 0]
         ELSE LET keep == SubSeq(b, 1, 53)
                  rest == AnyOne(SubSeq(b, 55, Len(b))) \/ sticky
                  up   == b[54] = 1 /\ (rest \/ keep[53] = 1)
              IN  [m |-> IF up THEN MulAdd(keep, 1, 1) ELSE keep,
                   e |-> Len(b) - 53],
       bits)

\* int / int true division, correctly rounded (timedelta.total_seconds);
\* 74 extra quotient bits make the quotient of any n >= 1 by d <= 10^6
\* longer than 53 bits
TrueDivide(nbits, d) ==
    At(LAMBDA nb :
         IF nb = <<>> THEN [m |-> <<>>, e |-> 0]
         ELSE At(LAMBDA dm :
                   At(LAMBDA r : [m |-> r.m, e |-> r.e - 74],
                      RoundBits(dm.q, dm.r # 0)),
                 DivMod(nb \o Zeros(74), d)),
       nbits)

\* float * c for a small natural c, correctly rounded
FloatMul(x, c) ==
    At(LAMBDA f :
         At(LAMBDA r : [m |-> r.m, e |-> f.e + r.e],
            RoundBits(MulAdd(f.m, c, 0), FALSE)),
       x)

\* int(float): the magnitude truncated toward zero, as bits
FloatToInt(x) ==
    At(LAMBDA f :
         IF f.e >= 0 THEN f.m \o Zeros(f.e)
         ELSE IF -f.e >= Len(f.m) THEN <<>>
         ELSE SubSeq(f.m, 1, Len(f.m) + f.e),
       x)

\* the natural (the first n limbs) as hi * 10^6 + lo with 0 <= lo < 10^6
RECURSIVE LimbHiLo(_, _)
LimbHiLo(limbs, n) ==
    IF n = 0 THEN [hi |-> 0, lo |-> 0]
    ELSE At(LAMBDA p :
              [hi |-> p.hi * 1024 + (p.lo * 1024 + limbs[n]) \div 1000000,
               lo |-> (p.lo * 1024 + limbs[n]) % 1000000],
            LimbHiLo(limbs, n - 1))

HiLo(bits) == At(LAMBDA l : LimbHiLo(l, Len(l)), ToLimbs(bits))

\* the Python int (+/-) bits, as [neg, hi, lo] = (+/-) (hi * 10^6 + lo)
PyInt(neg, bits) ==
    At(LAMBDA v : [neg |-> neg /\ (v.hi # 0 \/ v.lo # 0),
                   hi |-> v.hi, lo |-> v.lo],
       HiLo(bits))

(***************************************************************************)
(* Timestamps.  An ISO-8601 string is a sequence of one-character strings. *)
(***************************************************************************)
Digit ==
    ("0" :> 0) @@ ("1" :> 1) @@ ("2" :> 2) @@ ("3" :> 3) @@ ("4" :> 4) @@
    ("5" :> 5) @@ ("6" :> 6) @@ ("7" :> 7) @@ ("8" :> 8) @@ ("9" :> 9)

RECURSIVE Num(_)
Num(chars) ==
    IF chars = <<>> THEN 0
    ELSE Num(SubSeq(chars, 1, Len(chars) - 1)) * 10 + Digit[chars[Len(chars)]]

\* datetime.fromisoformat on "YYYY-MM-DDTHH:MM:SS" with an optional
\* fraction of up to six digits, which is right-padded to microseconds
RECURSIVE PadMicro(_)
PadMicro(chars) ==
    IF Len(chars) >= 6 THEN SubSeq(chars, 1, 6) ELSE PadMicro(Append(chars, "0"))

fromisoformat(s) ==
    At(LAMBDA t :
         [year        |-> Num(SubSeq(t, 1, 4)),
          month       |-> Num(SubSeq(t, 6, 7)),
          day         |-> Num(SubSeq(t, 9, 10)),
          hour        |-> Num(SubSeq(t, 12, 13)),
          minute      |-> Num(SubSeq(t, 15, 16)),
          second      |-> Num(SubSeq(t, 18, 19)),
          microsecond |-> IF Len(t) > 20
                          THEN Num(PadMicro(SubSeq(t, 21, Len(t))))
                          ELSE 0],
       s)

IsLeap(y) == y % 4 = 0 /\ (y % 100 # 0 \/ y % 400 = 0)

DaysBeforeMonth(y, m) ==
    LET cum == <<0, 31, 59, 90, 120, 151, 181, 212, 243, 273, 304, 334>>
    IN  cum[m] + (IF m > 2 /\ IsLeap(y) THEN 1 ELSE 0)

\* date.toordinal: day 1 is 0001-01-01 of the proleptic Gregorian calendar
Ordinal(y, m, d) ==
    LET p == y - 1
    IN  p * 365 + p \div 4 - p \div 100 + p \div 400 + DaysBeforeMonth(y, m) + d

\* whole seconds of  dt.replace(tzinfo=utc) - 1970-01-01T00:00:00+00:00
\* (timedelta.days * 86400 + timedelta.seconds; negative before the epoch)
EpochSeconds(dt) ==
    (Ordinal(dt.year, dt.month, dt.day) - Ordinal(1970, 1, 1)) * 86400
    + dt.hour * 3600 + dt.minute * 60 + dt.second

\* a slip: the seconds are not scaled to milliseconds
to_ms_unscaled(timestamp) ==
    At(LAMBDA dt :
         At(LAMBDA S :
              LET us  == dt.microsecond
                  mag == IF S >= 0 THEN MulAdd(NatToBits(S), 1000000, us)
                         ELSE IF us = 0 THEN MulAdd(NatToBits(-S), 1000000, 0)
                         ELSE MulAdd(NatToBits(-S - 1), 1000000, 1000000 - us)
                  x   == TrueDivide(mag, 1000000)
              IN  PyInt(S < 0, FloatToInt(x)),
            EpochSeconds(dt)),
       fromisoformat(SubSeq(timestamp, 1, Len(timestamp) - 1)))

\* KrakenWebsocketAPI.to_ms:
\*   timestamp = datetime.fromisoformat(timestamp[:-1]).replace(tzinfo=utc)
\*   return int(timestamp.timestamp() * 1000)
\* timestamp() is the timedelta's total microseconds / 10^6 as a float.
to_ms(timestamp) ==
    At(LAMBDA dt :
         At(LAMBDA S :
              LET us  == dt.microsecond
                  mag == IF S >= 0 THEN MulAdd(NatToBits(S), 1000000, us)
                         ELSE IF us = 0 THEN MulAdd(NatToBits(-S), 1000000, 0)
                         ELSE MulAdd(NatToBits(-S - 1), 1000000, 1000000 - us)
                  x   == TrueDivide(mag, 1000000)
                  y   == FloatMul(x, 1000)
              IN  PyInt(S < 0, FloatToInt(y)),
            EpochSeconds(dt)),
       fromisoformat(SubSeq(timestamp, 1, Len(timestamp) - 1)))

(***************************************************************************)
(* Configuration (main.py, the __main__ block) and bounds.                 *)
(***************************************************************************)
kafka_topic == "trades"
product_id  == "ETH/USD"
URL         == "wss://ws.kraken.com/v2"

\* frames the venue sends in one run, the two handshake frames included
MaxFrames == 5

\* trade elements in one generated data frame
MaxElems == 2

(***************************************************************************)
(* Inbound frames.  A frame is the text _ws.recv() returns, held as        *)
(*   heartbeat : whether the text contains the literal  heartbeat          *)
(*   json      : "invalid" (json.loads raises), "object" or "array"        *)
(*   body      : for an object, the dict json.loads returns                *)
(* Trade elements are dicts (records); a missing key is a missing field.   *)
(***************************************************************************)
TS_2024 ==
    << "2","0","2","4","-","0","1","-","0","1","T",
       "0","0",":","0","0",":","0","0",".","0","0","0","0","0","0","Z" >>
TS_2004 ==
    << "2","0","0","4","-","0","6","-","2","8","T",
       "1","9",":","5","8",":","4","5",".","1","3","3","0","0","0","Z" >>

ElemEth ==
    [symbol |-> "ETH/USD", side |-> "buy", price |-> 3000, qty |-> 2,
     timestamp |-> TS_2024]
ElemBtc ==
    [symbol |-> "BTC/USD", side |-> "sell", price |-> 42000, qty |-> 1,
     timestamp |-> TS_2004]

\* elements of the right types whose values the Trade data model is said to
\* exclude: an empty symbol, a zero price, a negative qty, a timestamp
\* before the epoch
TS_1969 ==
    << "1","9","6","9","-","1","2","-","3","1","T","2","3",":","5","9",":",
       "5","9",".","0","0","0","0","0","0","Z" >>

ElemEmptySymbol == [ElemEth EXCEPT !.symbol = ""]
ElemZeroPrice   == [ElemEth EXCEPT !.price = 0]
ElemNegativeQty == [ElemEth EXCEPT !.qty = -1]
ElemPreEpoch    == [ElemEth EXCEPT !.timestamp = TS_1969]

Without(elem, key) == [k \in DOMAIN elem \ {key} |-> elem[k]]

RequiredKeys == {"symbol", "price", "qty", "timestamp"}

TradeFrame(data) ==
    [heartbeat |-> FALSE, json |-> "object",
     body |-> [channel |-> "trade", type |-> "update", data |-> data]]

SubscribeAck ==
    [heartbeat |-> FALSE, json |-> "object",
     body |-> [method |-> "subscribe", success |-> TRUE]]

HeartbeatFrame ==
    [heartbeat |-> TRUE, json |-> "object", body |-> [channel |-> "heartbeat"]]

\* a frame that carries the marker and trade elements as well
HeartbeatTradeFrame ==
    [heartbeat |-> TRUE, json |-> "object",
     body |-> [channel |-> "trade", type |-> "heartbeat", data |-> <<ElemEth>>]]

NotJsonFrame       == [heartbeat |-> FALSE, json |-> "invalid"]
HeartbeatTextFrame == [heartbeat |-> TRUE, json |-> "invalid"]
ArrayFrame         == [heartbeat |-> FALSE, json |-> "array"]

\* every list of at most n elements drawn from elems
RECURSIVE ListsUpTo(_, _)
ListsUpTo(elems, n) ==
    IF n = 0 THEN { <<>> }
    ELSE ListsUpTo(elems, n - 1)
         \cup { Append(l, e) : l \in ListsUpTo(elems, n - 1), e \in elems }

WellFormedElems == { ElemEth, ElemBtc }
MalformedElems  == { Without(ElemEth, key) : key \in RequiredKeys }

\* The frames the venue may send as its n-th frame, by scenario:
\*   "any"   the handshake frames may be acknowledgments or live data, and
\*           every later frame any of eight kinds;
\*   "parse" two acknowledgments, then one frame of any modelled content,
\*           then heartbeats;
\*   "live"  two acknowledgments, then heartbeats, data and broken frames;
\*   "constraint"  two acknowledgments, then heartbeats and data frames of
\*           one element, well-typed, with values in and out of range;
\*   "handshake"  two frames of any of the eight kinds, then data and
\*           broken frames.
AnyFeed ==
    { SubscribeAck, HeartbeatFrame, HeartbeatTradeFrame, NotJsonFrame,
      TradeFrame(<<>>), TradeFrame(<<ElemEth>>), TradeFrame(<<ElemEth, ElemBtc>>),
      TradeFrame(<<ElemBtc, Without(ElemEth, "qty")>>) }

ParseFeed ==
    { SubscribeAck, HeartbeatFrame, HeartbeatTextFrame, NotJsonFrame, ArrayFrame }
    \cup { TradeFrame(data) :
             data \in ListsUpTo(WellFormedElems \cup MalformedElems, MaxElems) }
    \cup { [TradeFrame(data) EXCEPT !.heartbeat = TRUE] :
             data \in ListsUpTo(WellFormedElems \cup MalformedElems, 1) }

LiveFeed ==
    { HeartbeatFrame, NotJsonFrame, TradeFrame(<<ElemBtc>>),
      TradeFrame(<<ElemEth, ElemBtc>>) }

ConstraintFeed ==
    { HeartbeatFrame }
    \cup { TradeFrame(<<e>>) :
             e \in { ElemEth, ElemEmptySymbol, ElemZeroPrice, ElemNegativeQty,
                     ElemPreEpoch } }

AfterHandshakeFeed == { TradeFrame(<<ElemBtc>>), NotJsonFrame }

Offered(scn, n) ==
    CASE scn = "any"   -> IF n <= 2 THEN { SubscribeAck, TradeFrame(<<ElemEth>>) }
                          ELSE AnyFeed
      [] scn = "parse" -> IF n <= 2 THEN { SubscribeAck }
                          ELSE IF n = 3 THEN ParseFeed
                          ELSE { HeartbeatFrame }
      [] scn = "live"  -> IF n <= 2 THEN { SubscribeAck } ELSE LiveFeed
      [] scn = "constraint" -> IF n <= 2 THEN { SubscribeAck } ELSE ConstraintFeed
      [] scn = "handshake"  -> IF n <= 2 THEN AnyFeed ELSE AfterHandshakeFeed

(***************************************************************************)
(* KrakenWebsocketAPI.get_trades on the frame it received: the outcome is  *)
(* either a returned list of Trade records or a raised exception, in which *)
(* case nothing is returned.                                               *)
(***************************************************************************)
Return(value) == [exc |-> "none", value |-> value]
Raise(kind)   == [exc |-> kind, value |-> <<>>]

\* a slip in the keyword arguments: price and quantity exchanged
MakeTrade_swapped(trade) ==
    [product_id   |-> trade["symbol"],
     price        |-> trade["qty"],
     quantity     |-> trade["price"],
     timestamp_ms |-> to_ms(trade["timestamp"])]

\* Trade(product_id=trade["symbol"], price=trade["price"],
\*       quantity=trade["qty"], timestamp_ms=self.to_ms(trade["timestamp"]))
MakeTrade(trade) ==
    [product_id   |-> trade["symbol"],
     price        |-> trade["price"],
     quantity     |-> trade["qty"],
     timestamp_ms |-> to_ms(trade["timestamp"])]

\* a slip: trades.insert(0, ...) instead of trades.append(...)
RECURSIVE AppendTrades_reversed(_, _, _)
AppendTrades_reversed(data, k, trades) ==
    IF k > Len(data) THEN [exc |-> "none", value |-> trades]
    ELSE IF ~(RequiredKeys \subseteq DOMAIN data[k])
    THEN [exc |-> "KeyError", value |-> <<>>]
    ELSE AppendTrades_reversed(data, k + 1, <<MakeTrade(data[k])>> \o trades)

\* a slip: an element lacking a key is skipped instead of failing the call
RECURSIVE AppendTrades_skipping(_, _, _)
AppendTrades_skipping(data, k, trades) ==
    IF k > Len(data) THEN [exc |-> "none", value |-> trades]
    ELSE IF ~(RequiredKeys \subseteq DOMAIN data[k])
    THEN AppendTrades_skipping(data, k + 1, trades)
    ELSE AppendTrades_skipping(data, k + 1, Append(trades, MakeTrade(data[k])))

\* for trade in message["data"]: trades.append(Trade(...)), from element k
\* on; a subscript of a missing key raises KeyError out of the function
RECURSIVE AppendTrades(_, _, _)
AppendTrades(data, k, trades) ==
    IF k > Len(data) THEN Return(trades)
    ELSE IF ~(RequiredKeys \subseteq DOMAIN data[k]) THEN Raise("KeyError")
    ELSE AppendTrades(data, k + 1, Append(trades, MakeTrade(data[k])))

\* a slip: the heartbeat is recognised by the parsed channel field instead of
\* by the marker in the text
get_trades_byChannel(message) ==
    IF message.json = "invalid" THEN Raise("JSONDecodeError")
    ELSE IF message.json = "array" THEN Raise("TypeError")
    ELSE IF "channel" \in DOMAIN message.body /\ message.body.channel = "heartbeat"
    THEN Return(<<>>)
    ELSE IF "data" \notin DOMAIN message.body THEN Raise("KeyError")
    ELSE AppendTrades(message.body.data, 1, <<>>)

get_trades(message) ==
    IF message.heartbeat THEN Return(<<>>)
    ELSE IF message.json = "invalid" THEN Raise("JSONDecodeError")
    ELSE IF message.json = "array" THEN Raise("TypeError")
    ELSE IF "data" \notin DOMAIN message.body THEN Raise("KeyError")
    ELSE AppendTrades(message.body.data, 1, <<>>)

\* trade.model_dump(): the fields in declaration order
model_dump(trade) ==
    << <<"product_id", trade.product_id>>, <<"quantity", trade.quantity>>,
       <<"price", trade.price>>, <<"timestamp_ms", trade.timestamp_ms>> >>

\* a slip: the message is keyed by the subscribed instrument instead of the
\* trade's own
KafkaMessage_subscribedKey(trade) ==
    [topic |-> kafka_topic, key |-> product_id, value |-> model_dump(trade)]

\* topic.serialize(key=trade.product_id, value=trade.model_dump()) and the
\* arguments of producer.produce
KafkaMessage(trade) ==
    [topic |-> kafka_topic, key |-> trade.product_id, value |-> model_dump(trade)]

\* a slip: the request asks for the snapshot of recent trades
SubscribeMsg_withSnapshot(pid) ==
    [method |-> "subscribe",
     params |-> [channel |-> "trade", symbol |-> <<pid>>, snapshot |-> TRUE]]

\* the subscription request of _subscribe
SubscribeMsg(pid) ==
    [method |-> "subscribe",
     params |-> [channel |-> "trade", symbol |-> <<pid>>, snapshot |-> FALSE]]

(***************************************************************************)
(* State.                                                                  *)
(***************************************************************************)
VARIABLES
    scenario,        \* which frames the venue may send in this run
    pc,              \* the control point of produce_trades
    self_product_id, \* KrakenWebsocketAPI.product_id ("" before __init__)
    inbox,           \* frames the venue has sent and recv() has not returned
    outbound,        \* frames the client has sent
    producerOpen,    \* inside  with app.get_producer() as producer
    trades,          \* the local  trades  of produce_trades
    i,               \* position of the  for trade in trades  loop
    produced,        \* the producer.produce calls that returned
    exc,             \* the exception that ended produce_trades, or "none"
    received,        \* history: [by, frame] of every recv() that returned
    returned,        \* history: the Trade list of every get_trades call that returned
    log,             \* history: the calls made so far, in order
    is_done_result   \* history: <<v>> for the value v the last is_done call
                     \* returned, <<>> before the first call

vars == << scenario, pc, self_product_id, inbox, outbound, producerOpen,
           trades, i, produced, exc, received, returned, log,
           is_done_result >>

Arrived == Len(received) + Len(inbox)

InitIn(scn) ==
    /\ scenario = scn
    /\ pc = "init"
    /\ self_product_id = ""
    /\ inbox = <<>>
    /\ outbound = <<>>
    /\ producerOpen = FALSE
    /\ trades = <<>>
    /\ i = 1
    /\ produced = <<>>
    /\ exc = "none"
    /\ received = <<>>
    /\ returned = <<>>
    /\ log = <<>>
    /\ is_done_result = <<>>

Init == InitIn("any")

(***************************************************************************)
(* The venue: sends one more frame on the open connection.                 *)
(***************************************************************************)
VenueSends ==
    /\ pc \notin {"init", "raised"}
    /\ Arrived < MaxFrames
    /\ \E f \in Offered(scenario, Arrived + 1) : inbox' = Append(inbox, f)
    /\ UNCHANGED << scenario, is_done_result, pc, self_product_id, outbound, producerOpen,
                    trades, i, produced, exc, received, returned, log >>

(***************************************************************************)
(* KrakenWebsocketAPI.__init__ and _subscribe.                             *)
(***************************************************************************)
\* self.product_id = product_id; self._ws = create_connection(self.URL)
Connect ==
    /\ pc = "init"
    /\ self_product_id' = product_id
    /\ pc' = "send"
    /\ log' = Append(log, "connect")
    /\ UNCHANGED << scenario, is_done_result, inbox, outbound, producerOpen, trades, i,
                    produced, exc, received, returned >>

\* self._ws.send(json.dumps(msg))
SendSubscribe ==
    /\ pc = "send"
    /\ outbound' = Append(outbound, SubscribeMsg(self_product_id))
    /\ pc' = "recv1"
    /\ log' = Append(log, "send")
    /\ UNCHANGED << scenario, is_done_result, self_product_id, inbox, producerOpen, trades, i,
                    produced, exc, received, returned >>

\* _ = self._ws.recv(): blocks until a frame is there, and drops it unread
Discard(next) ==
    /\ inbox # <<>>
    /\ received' = Append(received, [by |-> "_subscribe", frame |-> Head(inbox)])
    /\ inbox' = Tail(inbox)
    /\ pc' = next
    /\ log' = Append(log, "recv")
    /\ UNCHANGED << scenario, is_done_result, self_product_id, outbound, producerOpen, trades,
                    i, produced, exc, returned >>

RecvFirst ==
    /\ pc = "recv1"
    /\ Discard("recv2")

\* a slip: _subscribe receives one frame only
RecvSecond_omitted ==
    /\ pc = "recv2"
    /\ pc' = "with"
    /\ UNCHANGED << scenario, is_done_result, self_product_id, inbox, outbound,
                    producerOpen, trades, i, produced, exc, received, returned,
                    log >>

RecvSecond ==
    /\ pc = "recv2"
    /\ Discard("with")

(***************************************************************************)
(* produce_trades.                                                         *)
(***************************************************************************)
\* with app.get_producer() as producer:
GetProducer ==
    /\ pc = "with"
    /\ producerOpen' = TRUE
    /\ pc' = "get_trades"
    /\ UNCHANGED << scenario, is_done_result, self_product_id, inbox, outbound, trades, i,
                    produced, exc, received, returned, log >>

\* a slip: a frame that made the call fail stays at the head of the connection
GetTrades_keepsFailedFrame ==
    /\ pc = "get_trades"
    /\ inbox # <<>>
    /\ \E message \in {Head(inbox)} : \E outcome \in {get_trades(message)} :
           /\ log' = Append(log, "get_trades")
           /\ IF outcome.exc = "none"
              THEN /\ inbox' = Tail(inbox)
                   /\ received' = Append(received, [by |-> "get_trades", frame |-> message])
                   /\ trades' = outcome.value
                   /\ i' = 1
                   /\ returned' = Append(returned, outcome.value)
                   /\ pc' = "for"
                   /\ UNCHANGED << exc, producerOpen >>
              ELSE /\ exc' = outcome.exc
                   /\ pc' = "raised"
                   /\ producerOpen' = FALSE
                   /\ UNCHANGED << trades, i, returned, inbox, received >>
    /\ UNCHANGED << scenario, is_done_result, self_product_id, outbound, produced >>

\* trades = kraken_api.get_trades(): blocks in recv() until a frame is there;
\* an exception leaves the loop and the with block
GetTrades ==
    /\ pc = "get_trades"
    /\ inbox # <<>>
    /\ \E message \in {Head(inbox)} : \E outcome \in {get_trades(message)} :
           /\ inbox' = Tail(inbox)
           /\ received' = Append(received, [by |-> "get_trades", frame |-> message])
           /\ log' = Append(log, "get_trades")
           /\ IF outcome.exc = "none"
              THEN /\ trades' = outcome.value
                   /\ i' = 1
                   /\ returned' = Append(returned, outcome.value)
                   /\ pc' = "for"
                   /\ UNCHANGED << exc, producerOpen >>
              ELSE /\ exc' = outcome.exc
                   /\ pc' = "raised"
                   /\ producerOpen' = FALSE
                   /\ UNCHANGED << trades, i, returned >>
    /\ UNCHANGED << scenario, is_done_result, self_product_id, outbound, produced >>

\* a slip: the message is produced twice
Produce_twice ==
    /\ pc = "for"
    /\ i <= Len(trades)
    /\ produced' = produced \o <<KafkaMessage(trades[i]), KafkaMessage(trades[i])>>
    /\ i' = i + 1
    /\ log' = Append(log, "produce")
    /\ UNCHANGED << scenario, is_done_result, pc, self_product_id, inbox, outbound,
                    producerOpen, trades, exc, received, returned >>

\* message = topic.serialize(...); producer.produce(...), for the next trade
Produce ==
    /\ pc = "for"
    /\ i <= Len(trades)
    /\ produced' = Append(produced, KafkaMessage(trades[i]))
    /\ i' = i + 1
    /\ log' = Append(log, "produce")
    /\ UNCHANGED << scenario, is_done_result, pc, self_product_id, inbox, outbound,
                    producerOpen, trades, exc, received, returned >>

\* a slip: the exception of producer.produce is caught and the loop goes on
\* with the next trade
ProduceRaises_swallowed ==
    /\ pc = "for"
    /\ i <= Len(trades)
    /\ i' = i + 1
    /\ log' = Append(log, "produce_raised")
    /\ UNCHANGED << scenario, is_done_result, pc, self_product_id, inbox, outbound,
                    producerOpen, trades, produced, exc, received, returned >>

\* producer.produce raises: the exception leaves the loop and the with block
ProduceRaises ==
    /\ pc = "for"
    /\ i <= Len(trades)
    /\ exc' = "KafkaException"
    /\ pc' = "raised"
    /\ producerOpen' = FALSE
    /\ log' = Append(log, "produce_raised")
    /\ UNCHANGED << scenario, is_done_result, self_product_id, inbox, outbound, trades, i,
                    produced, received, returned >>

\* a slip: the pause is skipped when the poll returned no trade
Sleep_skippedWhenEmpty ==
    /\ pc = "for"
    /\ i > Len(trades)
    /\ pc' = "get_trades"
    /\ log' = IF trades = <<>> THEN log ELSE Append(log, "sleep")
    /\ UNCHANGED << scenario, is_done_result, self_product_id, inbox, outbound, producerOpen,
                    trades, i, produced, exc, received, returned >>

\* a slip: the for loop may be left one trade early
Sleep_beforeLast ==
    /\ pc = "for"
    /\ i >= Len(trades)
    /\ pc' = "get_trades"
    /\ log' = Append(log, "sleep")
    /\ UNCHANGED << scenario, is_done_result, self_product_id, inbox, outbound, producerOpen,
                    trades, i, produced, exc, received, returned >>

\* a slip: the loop is left after a batch without trades
Sleep_breakWhenEmpty ==
    /\ pc = "for"
    /\ i > Len(trades)
    /\ pc' = IF trades = <<>> THEN "returned" ELSE "get_trades"
    /\ log' = Append(log, "sleep")
    /\ UNCHANGED << scenario, is_done_result, self_product_id, inbox, outbound,
                    producerOpen, trades, i, produced, exc, received, returned >>

\* the for loop is exhausted: sleep(1), then the next iteration
Sleep ==
    /\ pc = "for"
    /\ i > Len(trades)
    /\ pc' = "get_trades"
    /\ log' = Append(log, "sleep")
    /\ UNCHANGED << scenario, is_done_result, self_product_id, inbox, outbound, producerOpen,
                    trades, i, produced, exc, received, returned >>

(***************************************************************************)
(* KrakenWebsocketAPI.is_done.  produce_trades never calls it; any holder  *)
(* of the constructed client may, at any time.                             *)
(***************************************************************************)
\* a slip: reports done once an exception has ended the loop
is_done_afterFailure == exc # "none"

\* return False
is_done == FALSE

IsDone ==
    /\ pc \notin {"init", "send", "recv1", "recv2"}
    /\ is_done_result' = << is_done >>
    /\ UNCHANGED << scenario, pc, self_product_id, inbox, outbound,
                    producerOpen, trades, i, produced, exc, received,
                    returned, log >>

Client ==
    \/ Connect
    \/ SendSubscribe
    \/ RecvFirst
    \/ RecvSecond
    \/ GetProducer
    \/ GetTrades
    \/ Produce
    \/ ProduceRaises
    \/ Sleep

Next == VenueSends \/ Client \/ IsDone

Spec == Init /\ [][Next]_vars

\* one polled frame of every modelled content
InitParse == InitIn("parse")
SpecParse == InitParse /\ [][Next]_vars

\* produce_trades is one sequential thread that keeps running: a step that
\* is possible is taken
InitLive == InitIn("live")
SpecLive == InitLive /\ [][Next]_vars /\ WF_vars(Client)

\* frames of any content while _subscribe is receiving
InitHandshake == InitIn("handshake")
SpecHandshake == InitHandshake /\ [][Next]_vars

\* data elements whose values are out of the documented ranges
InitConstraint == InitIn("constraint")
SpecConstraint == InitConstraint /\ [][Next]_vars

(***************************************************************************)
(* Reading the history.                                                    *)
(***************************************************************************)
\* the frames recv() has returned, in order
ReceivedFrames == [k \in 1..Len(received) |-> received[k].frame]

\* every frame the venue has sent, in order
AllFrames == ReceivedFrames \o inbox

\* the received entries of the get_trades calls, in order
IsPoll(r) == r.by = "get_trades"
Polls == SelectSeq(received, IsPoll)

\* the Trades of the first n get_trades calls that returned, joined
RECURSIVE Joined(_, _)
Joined(lists, n) ==
    IF n = 0 THEN <<>> ELSE Joined(lists, n - 1) \o lists[n]

AllReturned == Joined(returned, Len(returned))

\* a frame without the marker whose data list holds only complete elements
IsDataFrame(f) ==
    /\ ~f.heartbeat
    /\ f.json = "object"
    /\ "data" \in DOMAIN f.body
    /\ \A n \in 1..Len(f.body.data) : RequiredKeys \subseteq DOMAIN f.body.data[n]

\* the Trade the element stands for
TradeOf(elem) ==
    [product_id |-> elem.symbol, price |-> elem.price, quantity |-> elem.qty,
     timestamp_ms |-> to_ms(elem.timestamp)]

\* the message is keyed by the trade's instrument and carries its four fields
Carries(msg, trade) ==
    \E t \in {trade} :
        /\ msg.key = t.product_id
        /\ msg.value = << <<"product_id", t.product_id>>,
                          <<"quantity", t.quantity>>,
                          <<"price", t.price>>,
                          <<"timestamp_ms", t.timestamp_ms>> >>

(***************************************************************************)
(* C1.  End to end: when the connection delivers an acknowledgment, a      *)
(* second acknowledgment, a heartbeat and a trade frame of two elements,   *)
(* nothing is published for the first three frames, and at the end of the  *)
(* iteration that polled the trade frame exactly two messages have been    *)
(* published, the first keyed ETH/USD and the second BTC/USD, each with    *)
(* the fields of its element (the timestamps as epoch milliseconds         *)
(* 1704067200000 and 1088452725132).                                       *)
(***************************************************************************)
C1_Script ==
    << SubscribeAck, SubscribeAck, HeartbeatFrame,
       TradeFrame(<<ElemEth, ElemBtc>>) >>

C1_Expected ==
    << [topic |-> "trades", key |-> "ETH/USD",
        value |-> << <<"product_id", "ETH/USD">>, <<"quantity", 2>>,
                     <<"price", 3000>>,
                     <<"timestamp_ms",
                       [neg |-> FALSE, hi |-> 1704067, lo |-> 200000]>> >>],
       [topic |-> "trades", key |-> "BTC/USD",
        value |-> << <<"product_id", "BTC/USD">>, <<"quantity", 1>>,
                     <<"price", 42000>>,
                     <<"timestamp_ms",
                       [neg |-> FALSE, hi |-> 1088452, lo |-> 725132]>> >>] >>

\* C1: on the scripted feed the loop publishes exactly the two expected
\* messages, in order, and nothing else
C1_EndToEnd ==
    LET fr == ReceivedFrames
    IN  /\ (Len(fr) <= 3 /\ fr = SubSeq(C1_Script, 1, Len(fr))) => produced = <<>>
        /\ (fr = C1_Script /\ pc = "for")
              => produced = SubSeq(C1_Expected, 1, i - 1)
        /\ (fr = C1_Script /\ pc = "get_trades") => produced = C1_Expected

C1_Witness ==
    /\ ReceivedFrames = C1_Script
    /\ pc = "get_trades"
    /\ Len(produced) = 2
    /\ log[Len(log)] = "sleep"

(***************************************************************************)
(* C2.  Every get_trades call that received a frame without the heartbeat  *)
(* marker whose data list holds N >= 0 complete elements returned exactly  *)
(* N Trades, the n-th built from the n-th element: product_id = symbol,    *)
(* price = price, quantity = qty, timestamp_ms = to_ms(timestamp).         *)
(***************************************************************************)
C2_PollReturnsAllInOrder ==
    \A j \in 1..Len(Polls) :
        LET f == Polls[j].frame
        IN  IsDataFrame(f) =>
              /\ j <= Len(returned)
              /\ Len(returned[j]) = Len(f.body.data)
              /\ \A n \in 1..Len(f.body.data) :
                    /\ returned[j][n].product_id = f.body.data[n].symbol
                    /\ returned[j][n].price = f.body.data[n].price
                    /\ returned[j][n].quantity = f.body.data[n].qty
                    /\ returned[j][n].timestamp_ms = to_ms(f.body.data[n].timestamp)

C2_Witness ==
    /\ Len(Polls) >= 1
    /\ Polls[1].frame = TradeFrame(<<ElemBtc, ElemEth>>)
    /\ Len(returned) >= 1
    /\ Len(returned[1]) = 2
    /\ returned[1][1].product_id = "BTC/USD"

(***************************************************************************)
(* C3.  Every get_trades call that received a frame containing the         *)
(* heartbeat marker, whatever else the frame holds, returned the empty     *)
(* list; while such a call is the latest one no exception has been raised, *)
(* the batch is empty, nothing has been published beyond the Trades of the *)
(* earlier calls, and the loop is at the pause or at the next poll.        *)
(***************************************************************************)
C3_HeartbeatReturnsEmpty ==
    /\ \A j \in 1..Len(Polls) :
          Polls[j].frame.heartbeat => (j <= Len(returned) /\ returned[j] = <<>>)
    /\ (Len(Polls) >= 1 /\ Polls[Len(Polls)].frame.heartbeat)
          => /\ exc = "none"
             /\ pc \in {"for", "get_trades"}
             /\ trades = <<>>
             /\ Len(produced) = Len(Joined(returned, Len(Polls) - 1))

C3_Witness ==
    /\ Len(Polls) = 2
    /\ Polls[1].frame = [TradeFrame(<<ElemBtc>>) EXCEPT !.heartbeat = TRUE]
    /\ Polls[2].frame = HeartbeatFrame
    /\ returned = << <<>>, <<>> >>
    /\ produced = <<>>
    /\ pc = "for"

(***************************************************************************)
(* C4.  A get_trades call that received a frame without the heartbeat      *)
(* marker that is not valid JSON, is not a JSON object, has no data list,  *)
(* or holds an element (at any position) lacking one of symbol, price,     *)
(* qty, timestamp, raised an exception and returned nothing: it is the     *)
(* last call, the loop has ended, and no Trade of that frame was returned  *)
(* or published, the complete elements before the broken one included.     *)
(* The exception is the one of the failing step: JSONDecodeError,          *)
(* TypeError or KeyError.                                                  *)
(***************************************************************************)
IsBrokenFrame(f) == ~f.heartbeat /\ ~IsDataFrame(f)

ExceptionOf(f) ==
    IF f.json = "invalid" THEN "JSONDecodeError"
    ELSE IF f.json = "array" THEN "TypeError"
    ELSE "KeyError"

C4_FailsWith(kindOf(_)) ==
    \A j \in 1..Len(Polls) :
        LET f == Polls[j].frame
        IN  IsBrokenFrame(f) =>
              /\ j = Len(Polls)
              /\ Len(returned) = j - 1
              /\ pc = "raised"
              /\ exc = kindOf(f)
              /\ Len(produced) = Len(AllReturned)

ProtocolViolationOf(f) == "ProtocolViolation"
C5_PublishedIsPrefixOfReturned ==
    /\ Len(produced) <= Len(AllReturned)
    /\ \A n \in 1..Len(produced) : Carries(produced[n], AllReturned[n])
    /\ pc = "get_trades" => Len(produced) = Len(AllReturned)
    /\ pc = "for" => Len(produced) = Len(Joined(returned, Len(returned) - 1)) + i - 1

C5_Witness ==
    /\ Len(returned) = 2
    /\ Len(returned[1]) = 2
    /\ Len(returned[2]) = 1
    /\ Len(produced) = 3
    /\ pc = "get_trades"

(***************************************************************************)
(* C6.  A failing call ends the loop at once: the step in which get_trades *)
(* receives a broken frame, or in which producer.produce fails, leaves the *)
(* loop terminated with that exception and publishes nothing; and once     *)
(* terminated, the loop makes no further call (no poll, no publish, no     *)
(* pause, no retry).                                                       *)
(***************************************************************************)
PollFailed ==
    /\ Len(received') = Len(received) + 1
    /\ received'[Len(received')].by = "get_trades"
    /\ IsBrokenFrame(received'[Len(received')].frame)

PublishFailed ==
    /\ Len(log') = Len(log) + 1
    /\ log'[Len(log')] = "produce_raised"

\* C6: a failed poll or publish ends the loop: no later step polls, publishes
\* or sleeps, and the exception is the one raised
C6_FailureTerminates ==
    [][ /\ (PollFailed \/ PublishFailed)
            => (pc' = "raised" /\ exc' # "none" /\ produced' = produced)
        /\ pc = "raised"
            => UNCHANGED << pc, exc, produced, received, returned, log,
                            outbound, trades, i >> ]_vars

C6_Witness ==
    /\ pc = "raised"
    /\ exc = "KafkaException"
    /\ Len(trades) = 2
    /\ i = 1
    /\ produced = <<>>

(***************************************************************************)
(* C7.  Every iteration is one get_trades call, then one publish per       *)
(* returned Trade, then one pause, also when no Trade was returned: a      *)
(* get_trades call other than the first directly follows a pause, a pause  *)
(* directly follows the publishes of its iteration, and the numbers of     *)
(* polls and pauses agree whenever a poll is about to be issued.           *)
(***************************************************************************)
Count(seq, e) == Cardinality({n \in 1..Len(seq) : seq[n] = e})

\* the log from the first get_trades call on
LoopLog ==
    IF Count(log, "get_trades") = 0 THEN <<>>
    ELSE SubSeq(log, CHOOSE n \in 1..Len(log) :
                        log[n] = "get_trades"
                        /\ \A m \in 1..(n - 1) : log[m] # "get_trades",
                Len(log))

\* the number of produce calls that directly follow position n of the log
RECURSIVE ProducesAfter(_, _)
ProducesAfter(l, n) ==
    IF n < Len(l) /\ l[n + 1] = "produce" THEN 1 + ProducesAfter(l, n + 1) ELSE 0

\* the position in the log l of the j-th get_trades call
PollPos(l, j) ==
    CHOOSE n \in 1..Len(l) :
        l[n] = "get_trades" /\ Count(SubSeq(l, 1, n), "get_trades") = j

\* C7: every iteration is one poll, one publish per returned Trade in order,
\* then one pause, also when the batch is empty
C7_IterationShape ==
    LET l == LoopLog
    IN  /\ \A n \in 2..Len(l) : l[n] = "get_trades" => l[n - 1] = "sleep"
        /\ \A n \in 1..Len(l) :
              l[n] = "sleep" => (n > 1 /\ l[n - 1] \in {"get_trades", "produce"})
        /\ \A n \in 1..(Len(l) - 1) : l[n] = "sleep" => l[n + 1] = "get_trades"
        /\ \A j \in 1..Count(l, "sleep") :
              /\ j <= Len(returned)
              /\ ProducesAfter(l, PollPos(l, j)) = Len(returned[j])
              /\ l[PollPos(l, j) + Len(returned[j]) + 1] = "sleep"
        /\ pc = "get_trades" => Count(l, "get_trades") = Count(l, "sleep")
        /\ pc = "for" => Count(l, "get_trades") = Count(l, "sleep") + 1

C7_Witness ==
    /\ Len(LoopLog) >= 5
    /\ SubSeq(LoopLog, 1, 5) = <<"get_trades", "sleep", "get_trades", "produce", "sleep">>
    /\ returned[1] = <<>>

(***************************************************************************)
(* C8.  Whatever number n >= 1 of acknowledgment frames precedes the first *)
(* live frame, every one of them is consumed without an error, and a first *)
(* live frame that is a trade frame is received by a get_trades call (it   *)
(* is not dropped by the handshake).                                       *)
(***************************************************************************)
OnlyAcksBefore(k) == \A m \in 1..(k - 1) : received[m].frame = SubscribeAck

\* C8: whatever number of acknowledgments precedes the first data frame, no
\* data frame is consumed by the handshake
C8_ToleratesAnyNumberOfAcks ==
    \A k \in 2..Len(received) :
        OnlyAcksBefore(k) =>
          /\ (received[k].frame = SubscribeAck /\ k = Len(received))
                => pc # "raised"
          /\ IsDataFrame(received[k].frame) => received[k].by = "get_trades"

(***************************************************************************)
(* C10.  Every message produced goes to the configured topic, is keyed by  *)
(* the product_id of the Trade it carries, and its value is that Trade's   *)
(* record of exactly the fields product_id, quantity, price, timestamp_ms; *)
(* so the key equals the product_id inside the value.                      *)
(***************************************************************************)
C10_MessageShape ==
    \A n \in 1..Len(produced) :
        LET msg == produced[n]
        IN  /\ msg.topic = "trades"
            /\ n <= Len(AllReturned)
            /\ Carries(msg, AllReturned[n])
            /\ Len(msg.value) = 4
            /\ msg.value[1][1] = "product_id"
            /\ msg.key = msg.value[1][2]

C10_Witness ==
    /\ Len(produced) = 2
    /\ produced[2].key = "BTC/USD"
    /\ produced[2].value[1] = <<"product_id", "BTC/USD">>
    /\ self_product_id = "ETH/USD"

(***************************************************************************)
(* C9.  Every complete trade element of every data frame the venue sends   *)
(* after the two handshake frames is eventually published, unless a poll   *)
(* or a publish raises: element j of the k-th frame (k >= 3) leads to the  *)
(* loop having terminated with an exception or to a produced message that  *)
(* carries the element's Trade, at the element's place in the output.      *)
(***************************************************************************)
C9_Arrived(k, j) ==
    /\ Len(AllFrames) >= k
    /\ IsDataFrame(AllFrames[k])
    /\ j <= Len(AllFrames[k].body.data)

C9_Published(k, j) ==
    /\ C9_Arrived(k, j)
    /\ Len(returned) >= k - 2
    /\ LET at == Len(Joined(returned, k - 3)) + j
       IN  /\ Len(produced) >= at
           /\ Carries(produced[at], TradeOf(AllFrames[k].body.data[j]))

\* C9: every element of a data frame that arrives after the handshake is
\* eventually published, unless the loop has failed
C9_EveryTradeEventuallyPublished ==
    \A k \in 3..MaxFrames : \A j \in 1..MaxElems :
        C9_Arrived(k, j) ~> (pc = "raised" \/ C9_Published(k, j))

C9_Witness ==
    /\ pc # "raised"
    /\ Len(AllFrames) >= 4
    /\ AllFrames[3] = TradeFrame(<<ElemBtc>>)
    /\ AllFrames[4] = TradeFrame(<<ElemEth, ElemBtc>>)
    /\ C9_Published(4, 2)
    /\ produced[3].key = "BTC/USD"

(***************************************************************************)
(* C11.  The Trade model declares four typed fields and no validator, so   *)
(* get_trades builds a Trade from any element of the right types.          *)
(***************************************************************************)
SatisfiesConstraints(trade) ==
    /\ trade.product_id # ""
    /\ trade.price > 0
    /\ trade.quantity > 0
    /\ ~trade.timestamp_ms.neg

\* C11: every Trade returned by get_trades has a non-empty instrument, a
\* positive price, a positive quantity and a timestamp_ms >= 0
C11_TradesSatisfyConstraints ==
    \A j \in 1..Len(returned) : \A n \in 1..Len(returned[j]) :
        SatisfiesConstraints(returned[j][n])

(***************************************************************************)
(* C12.  is_done returns False in whatever state the constructed client is *)
(* (before a poll, between polls, after a poll raised), and the call       *)
(* changes nothing else: no frame is consumed, nothing is sent or          *)
(* published, and the loop is where it was.                                *)
(***************************************************************************)
\* C12: every is_done call returns False and leaves the client, the
\* connection and the loop unchanged
C12_AlwaysAlive ==
    [][ is_done_result' # is_done_result
        => /\ is_done_result' = << FALSE >>
           /\ UNCHANGED << scenario, pc, self_product_id, inbox, outbound,
                           producerOpen, trades, i, produced, exc, received,
                           returned, log >> ]_vars

C12_Witness ==
    /\ is_done_result = << FALSE >>
    /\ pc = "raised"
    /\ exc = "KeyError"
    /\ Len(returned) >= 1
    /\ returned[1] = <<>>

(***************************************************************************)
(* C13.  to_ms reads nothing but its argument: whichever call converts it  *)
(* and whatever happened before, the same timestamp string gives the same  *)
(* integer, and 2024-01-01T00:00:00.000000Z gives 1704067200000.           *)
(***************************************************************************)
\* the timestamp strings of the elements the j-th returning call converted
ConvertedBy(j) ==
    [n \in 1..Len(returned[j]) |-> Polls[j].frame.body.data[n].timestamp]

\* C13: equal timestamp strings were converted to equal integers by every
\* call, and the timestamp 2024-01-01T00:00:00.000000Z to 1704067200000
C13_ConversionIsDeterministic ==
    \A j \in 1..Len(returned) : \A n \in 1..Len(returned[j]) :
        /\ ConvertedBy(j)[n] = TS_2024
              => returned[j][n].timestamp_ms
                   = [neg |-> FALSE, hi |-> 1704067, lo |-> 200000]
        /\ \A jj \in 1..Len(returned) : \A nn \in 1..Len(returned[jj]) :
              ConvertedBy(j)[n] = ConvertedBy(jj)[nn]
                => returned[j][n].timestamp_ms = returned[jj][nn].timestamp_ms

C13_Witness ==
    /\ Len(returned) >= 3
    /\ returned[1] = << TradeOf(ElemEth) >>
    /\ returned[2] = <<>>
    /\ Len(returned[3]) = 2
    /\ ConvertedBy(3)[1] = TS_2024
    /\ returned[3][1].timestamp_ms = [neg |-> FALSE, hi |-> 1704067, lo |-> 200000]
    /\ self_product_id = "ETH/USD"

(***************************************************************************)
(* C14.  while True has no break and no return: produce_trades ends only   *)
(* by an exception.  As long as none was raised the control is in the      *)
(* construction or in the loop, the pause is followed by the next          *)
(* get_trades call, and a finished batch always leads to that call.        *)
(***************************************************************************)
InLoopOrBefore ==
    pc \in {"init", "send", "recv1", "recv2", "with", "get_trades", "for"}

\* C14: without an exception the loop never terminates, and every completed
\* iteration is followed by another get_trades call
C14_NoNaturalTermination ==
    /\ [](exc = "none" => InLoopOrBefore)
    /\ [](pc = "raised" <=> exc # "none")
    /\ [][ (Len(log') = Len(log) + 1 /\ log'[Len(log')] = "sleep")
            => (pc' = "get_trades" /\ exc' = "none") ]_vars
    /\ (pc = "for" /\ exc = "none") ~> (pc = "get_trades" \/ exc # "none")

C14_Witness ==
    /\ exc = "none"
    /\ pc = "get_trades"
    /\ Count(log, "sleep") = MaxFrames - 2
    /\ Len(produced) >= 2
    /\ log[Len(log)] = "sleep"

(***************************************************************************)
(* C15.  get_trades calls recv() once: the call takes the oldest frame not *)
(* yet received, whatever the call then does with it, and while there is   *)
(* none the loop stands still.  No step of the client reorders, drops or   *)
(* repeats a frame.                                                        *)
(***************************************************************************)
IsPollStep == Len(log') = Len(log) + 1 /\ log'[Len(log')] = "get_trades"

\* C15: a poll consumes exactly the oldest pending frame, whatever its
\* outcome; with no pending frame the loop takes no step; frames are
\* received in arrival order, each once
C15_OneFramePerPoll ==
    [][ /\ IsPollStep
          => /\ inbox # <<>>
             /\ inbox' = Tail(inbox)
             /\ received' = Append(received,
                                   [by |-> "get_trades", frame |-> Head(inbox)])
        /\ (pc = "get_trades" /\ inbox = <<>>)
          => UNCHANGED << pc, log, produced, exc, trades, i, received,
                          returned, outbound, producerOpen >>
        /\ (log' # log \/ pc' # pc) => AllFrames' = AllFrames
        /\ (received' # received) => inbox' = Tail(inbox)
      ]_vars

C15_Witness ==
    /\ Len(Polls) = 3
    /\ Polls[1].frame = HeartbeatFrame
    /\ Polls[2].frame = TradeFrame(<<ElemEth, ElemBtc>>)
    /\ Polls[3].frame = NotJsonFrame
    /\ returned = << <<>>, << TradeOf(ElemEth), TradeOf(ElemBtc) >> >>
    /\ exc = "JSONDecodeError"
    /\ inbox = <<>>

(***************************************************************************)
(* C16.  __init__ connects, _subscribe sends the request and calls recv()  *)
(* twice without looking at what it gets; only then does produce_trades    *)
(* start polling.  So the calls begin connect, send, recv, recv, the first *)
(* two frames are received by _subscribe and leave no Trade, no message    *)
(* and no exception, and the k-th frame received (k >= 3) is the frame of  *)
(* the (k-2)-th get_trades call.                                           *)
(***************************************************************************)
ConstructionCalls == << "connect", "send", "recv", "recv" >>

\* C16: construction is connect, send, two discarded receives, in this order
\* and before any poll or publish; frames 1 and 2 have no effect whatever
\* they hold; frame k >= 3 is processed by get_trades call k - 2
C16_ConstructionDiscardsTwo ==
    /\ \A n \in 1..Len(log) :
          IF n <= 4 THEN log[n] = ConstructionCalls[n]
          ELSE log[n] \in {"get_trades", "produce", "produce_raised", "sleep"}
    /\ Len(received) = Count(log, "recv") + Count(log, "get_trades")
    /\ \A k \in 1..Len(received) :
          /\ received[k].frame = AllFrames[k]
          /\ IF k <= 2 THEN received[k].by = "_subscribe"
             ELSE /\ received[k].by = "get_trades"
                  /\ Polls[k - 2] = received[k]
    /\ Len(Polls) = Count(log, "get_trades")
    /\ Count(log, "get_trades") = 0
          => (returned = <<>> /\ produced = <<>> /\ exc = "none" /\ trades = <<>>)

C16_Witness ==
    /\ Len(received) = 3
    /\ received[1].frame = NotJsonFrame
    /\ received[2].frame = TradeFrame(<<ElemEth, ElemBtc>>)
    /\ received[3].frame = TradeFrame(<<ElemBtc>>)
    /\ produced = << KafkaMessage(TradeOf(ElemBtc)) >>
    /\ exc = "none"

(***************************************************************************)
(* C17.  The reference value of the claim, in exact integer arithmetic:    *)
(* (whole epoch seconds) * 1000 + floor(microseconds / 1000).  to_ms       *)
(* computes in binary64 instead: the seconds with their fraction are       *)
(* rounded to a float, the product by 1000 is rounded again, and int()     *)
(* cuts toward zero.                                                       *)
(***************************************************************************)
ExactMs(timestamp) ==
    At(LAMBDA dt :
         At(LAMBDA S :
              IF S >= 0
              THEN PyInt(FALSE, MulAdd(NatToBits(S), 1000,
                                       dt.microsecond \div 1000))
              ELSE PyInt(TRUE, MulAdd(NatToBits(-S - 1), 1000,
                                      1000 - dt.microsecond \div 1000)),
            EpochSeconds(dt)),
       fromisoformat(SubSeq(timestamp, 1, Len(timestamp) - 1)))

\* C17: the timestamp_ms of every returned Trade is the exact millisecond
\* value of its element's timestamp
C17_ConversionIsExact ==
    \A j \in 1..Len(returned) : \A n \in 1..Len(returned[j]) :
        returned[j][n].timestamp_ms = ExactMs(ConvertedBy(j)[n])

(***************************************************************************)
(* C18.  The only send is the one of _subscribe, and nothing assigns       *)
(* self.product_id after __init__.                                         *)
(***************************************************************************)
C18_Request ==
    [method |-> "subscribe",
     params |-> [channel |-> "trade", symbol |-> << "ETH/USD" >>,
                 snapshot |-> FALSE]]

\* C18: the client sends one frame ever, the subscription request for the
\* instrument given at construction; no get_trades or is_done call sends,
\* reconnects or changes the stored product_id
C18_SingleSubscription ==
    /\ [](outbound = IF pc \in {"init", "send"} THEN <<>> ELSE << C18_Request >>)
    /\ [](self_product_id = IF pc = "init" THEN "" ELSE product_id)
    /\ [](Count(log, "connect") <= 1 /\ Count(log, "send") <= 1)
    /\ [][ (IsPollStep \/ is_done_result' # is_done_result)
            => UNCHANGED << outbound, self_product_id >> ]_vars

C18_Witness ==
    /\ outbound = << C18_Request >>
    /\ Len(Polls) = 3
    /\ is_done_result = << FALSE >>
    /\ self_product_id = "ETH/USD"
    /\ Len(produced) >= 2

====
